---------------------------- MODULE Spec2Model ----------------------------
(***************************************************************************)
(* Model of the Cactus Performance Dashboard (src/app.py).                 *)
(*                                                                         *)
(* The script is executed top to bottom on every render.  The module has   *)
(* two parts:                                                              *)
(*   - the densification of the generated-tokens table (app.py 150-173),   *)
(*     a pure transformation of a table, checked under SpecDensify, whose  *)
(*     initial states draw the table from bounded sets;                    *)
(*   - the render itself (app.py 22-254) with the cached query gateway     *)
(*     run_sql_snippet, checked under Spec.                                *)
(*                                                                         *)
(* Tables (pandas DataFrames) are sequences of records.  A timestamp is    *)
(* the ordinal of a calendar day of the year; the raw value of column t    *)
(* is a <<month, day>> pair that pd.to_datetime has to parse.              *)
(***************************************************************************)
EXTENDS Integers, Sequences, FiniteSets, TLC

\* ------------------------------------------------------------------ bounds
\* Longest table fed to the densification step.
MaxRows == 3
\* Largest tokens_generated value of an input row (1 is the smallest).
MaxTokens == 2
\* Last day of February that occurs as an input date (January 31 always does).
MaxFebDay == 2
\* Longest table with malformed entries fed to the densification step.
MaxBadRows == 2
\* Longest table handed to a chart builder called on its own.
MaxChartRows == 2

\* --------------------------------------------------------- generic helpers
RECURSIVE SumSeq(_)
SumSeq(s) == IF s = <<>> THEN 0 ELSE Head(s) + SumSeq(Tail(s))

Range(s) == {s[i] : i \in DOMAIN s}

\* all sequences over S of length at most n
SeqUpTo(S, n) == UNION {[1..k -> S] : k \in 0..n}

\* ------------------------------------------------------------- the tables
\* device_manufacturer values, in the lexicographic order sort_values uses
Manufacturers == <<"apple", "samsung">>

ManufacturerRank(c) == CHOOSE i \in DOMAIN Manufacturers : Manufacturers[i] = c

\* days of each month of the calendar pd.to_datetime parses against
DaysInMonth(m) == IF m = 1 THEN 31 ELSE 29

\* ordinal of the first day of month m
MonthStart(m) == IF m = 1 THEN 0 ELSE 31

\* faulty variant: every month taken to have 31 days
IsCalendarDate_AnyMonth(t) == t[1] \in 1..2 /\ t[2] \in 1..31

\* whether a raw t value names a day of the calendar
IsCalendarDate(t) == t[1] \in 1..2 /\ t[2] \in 1..DaysInMonth(t[1])

\* pd.to_datetime on one parseable raw value: the day's ordinal
ToDatetime(t) == MonthStart(t[1]) + t[2]

\* a JSON number, and a JSON string, as an entry of tokens_generated
Num(n) == [kind |-> "int", n |-> n]
Str == [kind |-> "str", n |-> 0]

\* lines 153-154: rename t to time and parse the whole column; the parse
\* raises on the first value that is no calendar date
ParseTimeColumn(rows) ==
    IF \E i \in DOMAIN rows : ~IsCalendarDate(rows[i].t)
    THEN [error |-> "ParseError", frame |-> <<>>]
    ELSE [error |-> "none",
          frame |-> [i \in DOMAIN rows |->
                       [time |-> ToDatetime(rows[i].t),
                        device_manufacturer |-> rows[i].device_manufacturer,
                        tokens_generated |-> rows[i].tokens_generated]]]

\* Series.min() and Series.max() of the time column
MinTime(df) == CHOOSE t \in {df[i].time : i \in DOMAIN df} :
                 \A i \in DOMAIN df : t <= df[i].time
MaxTime(df) == CHOOSE t \in {df[i].time : i \in DOMAIN df} :
                 \A i \in DOMAIN df : t >= df[i].time

\* faulty variant: the end date left out
DateRange_HalfOpen(start, end) == [k \in 1..(end - start) |-> start + k - 1]

\* line 158: pd.date_range(start, end, freq='D'), both ends included
DateRange(start, end) == [k \in 1..(end - start + 1) |-> start + k - 1]

RECURSIVE Unique(_)
\* line 159: Series.unique(), the values in order of first appearance
Unique(s) ==
    IF s = <<>> THEN <<>>
    ELSE LET init == Unique(SubSeq(s, 1, Len(s) - 1))
             last == s[Len(s)]
         IN IF last \in Range(init) THEN init ELSE Append(init, last)

\* line 160: MultiIndex.from_product([date_range, all_devices]).to_frame(),
\* the first level varying slowest
Grid(dates, devices) ==
    [k \in 1..(Len(dates) * Len(devices)) |->
       [time |-> dates[((k - 1) \div Len(devices)) + 1],
        device_manufacturer |-> devices[((k - 1) % Len(devices)) + 1]]]

\* the dtype pandas gives the tokens_generated column
IsNumeric(df) == \A i \in DOMAIN df : df[i].tokens_generated.kind = "int"

\* the rows of df in one (time, device_manufacturer) group
GroupRows(df, t, c) ==
    SelectSeq(df, LAMBDA r : r.time = t /\ r.device_manufacturer = c)

\* faulty variant: the last row of a group kept instead of the group's sum
GroupSum_Overwrite(g) == g[Len(g)].tokens_generated

\* sum() of one group: integers add up; on an object column Python's + adds
\* the entries, which concatenates strings and raises on a mixed pair
GroupSum(g) ==
    IF \A i \in DOMAIN g : g[i].tokens_generated.kind = "int"
    THEN Num(SumSeq([i \in DOMAIN g |-> g[i].tokens_generated.n]))
    ELSE IF \A i \in DOMAIN g : g[i].tokens_generated.kind = "str"
         THEN Str
         ELSE [kind |-> "TypeError", n |-> 0]

\* line 163: groupby(['time','device_manufacturer'])['tokens_generated'].sum()
\* .reset_index(): one row per pair present in df
DailyTokens(df) ==
    {[time |-> df[i].time,
      device_manufacturer |-> df[i].device_manufacturer,
      tokens_generated |->
          GroupSum(GroupRows(df, df[i].time, df[i].device_manufacturer))]
       : i \in DOMAIN df}

\* line 166: pd.merge(grid, daily_tokens, how='left').fillna(0): the grid's
\* rows in the grid's order, each with its pair's sum, or 0 without one
MergeFill(grid, daily) ==
    [k \in DOMAIN grid |->
       LET hit == {d \in daily : d.time = grid[k].time
                     /\ d.device_manufacturer = grid[k].device_manufacturer}
       IN [time |-> grid[k].time,
           device_manufacturer |-> grid[k].device_manufacturer,
           tokens_generated |->
               IF hit = {} THEN Num(0) ELSE (CHOOSE d \in hit : TRUE).tokens_generated]]

\* the order of sort_values(['device_manufacturer', 'time'])
RowBefore(a, b) ==
    \/ ManufacturerRank(a.device_manufacturer) < ManufacturerRank(b.device_manufacturer)
    \/ /\ a.device_manufacturer = b.device_manufacturer
       /\ a.time < b.time

RECURSIVE InsertRow(_, _)
InsertRow(sorted, r) ==
    IF sorted = <<>> THEN <<r>>
    ELSE IF RowBefore(r, Head(sorted)) THEN <<r>> \o sorted
         ELSE <<Head(sorted)>> \o InsertRow(Tail(sorted), r)

RECURSIVE SortValues(_)
\* line 169: merged_df.sort_values(['device_manufacturer', 'time'])
SortValues(df) ==
    IF df = <<>> THEN <<>>
    ELSE InsertRow(SortValues(SubSeq(df, 1, Len(df) - 1)), df[Len(df)])

\* line 170: groupby('device_manufacturer')['tokens_generated'].cumsum(): at
\* each row the sum of its group's rows up to and including it
GroupCumsum(df) ==
    [k \in DOMAIN df |->
       SumSeq([j \in 1..Len(SelectSeq(SubSeq(df, 1, k),
                   LAMBDA r : r.device_manufacturer = df[k].device_manufacturer)) |->
               SelectSeq(SubSeq(df, 1, k),
                   LAMBDA r : r.device_manufacturer = df[k].device_manufacturer)[j]
                 .tokens_generated.n])]

\* lines 156-171 on a non-empty table whose time column is parsed
Densify(df) ==
    LET date_range == DateRange(MinTime(df), MaxTime(df))
        all_devices == Unique([i \in DOMAIN df |-> df[i].device_manufacturer])
        grid == Grid(date_range, all_devices)
        daily_tokens == DailyTokens(df)
        merged_df == SortValues(MergeFill(grid, daily_tokens))
        cum == GroupCumsum(merged_df)
    IN IF \E d \in daily_tokens : d.tokens_generated.kind = "TypeError"
       THEN [error |-> "TypeError", frame |-> <<>>]
       ELSE IF ~IsNumeric(merged_df)
       THEN [error |-> "TypeError", frame |-> <<>>]
       ELSE [error |-> "none",
             frame |-> [k \in DOMAIN merged_df |->
                          [time |-> merged_df[k].time,
                           device_manufacturer |-> merged_df[k].device_manufacturer,
                           tokens_generated |-> merged_df[k].tokens_generated.n,
                           cumulative_tokens |-> cum[k]]]]

\* lines 151-173: what the script leaves in cumulative_tokens for the table
\* run_sql_snippet returned, or the exception that ends the script
DensifyTokens(rows) ==
    IF rows = <<>> THEN [error |-> "none", frame |-> <<>>]
    ELSE LET parsed == ParseTimeColumn(rows)
         IN IF parsed.error # "none" THEN parsed ELSE Densify(parsed.frame)

\* ------------------------------------------------------------ the state
VARIABLES
    pc,                 \* the statement the script is at
    secrets,            \* which of supabase_url, supabase_key the secret store holds
    renders,            \* number of script runs started
    clock,              \* seconds since the session began
    cache,              \* st.cache_data's store for run_sql_snippet
    fetched,            \* per (procedure, params): the last backend invocation
    included_projects,  \* the multiselect's value
    group_by,           \* the selectbox's value, cleaned
    params,             \* the parameter mapping of the three queries
    rates_data,         \* script variables; unbound until assigned
    counts_data,
    success_rate_data,
    error_rate_data,
    count_field,
    chart_suffix,
    cumulative_tokens,
    error_logs,
    page,               \* the elements the run has put on the page, in order
    calls,              \* the run's calls of run_sql_snippet, in order
    exception,          \* the exception that ended the run, or "none"
    chart_call,         \* arguments of a direct call of a chart builder
    chart_ret           \* what that call returned and emitted

vars == <<pc, secrets, renders, clock, cache, fetched, included_projects,
          group_by, params, rates_data, counts_data, success_rate_data,
          error_rate_data, count_field, chart_suffix, cumulative_tokens,
          error_logs, page, calls, exception, chart_call, chart_ret>>

\* a script variable: unbound, or bound to a table
Unbound == [bound |-> FALSE, df |-> <<>>]
Bound(df) == [bound |-> TRUE, df |-> df]

\* ------------------------------------------------------------- constants
\* line 8
prod_values_to_filter_out == <<"kin_ai", "cactus_chat", "other">>

\* line 41: st.cache_data(ttl=600), in seconds
TTL == 600

\* Script runs in one session.
MaxRenders == 2

\* the remote procedures the script names (lines 127, 132, 136, 150, 176)
RatesProcedures ==
    {"get_project_error_rate", "get_device_error_rate", "get_event_error_rate"}
Procedures == RatesProcedures \cup {"get_generated_tokens_new", "get_error_logs"}

\* the selectbox's options (line 115)
GroupByOptions == {"project", "device", "event (NEW!)"}

\* values the user gives the multiselect in a later run
Selections == {{"other"}, {"kin_ai", "other"}}

\* time that passes between two runs of the script
Delays == {0, TTL \div 2, TTL}

\* one element put on the page: the streamlit call, its text, and for a
\* chart the column on its y axis
Elt(e, about, col) == [elt |-> e, about |-> about, col |-> col]

\* str.title() of a cleaned group_by value
Title(g) == CASE g = "project" -> "Project"
              [] g = "device" -> "Device"
              [] OTHER -> "Event"

\* ------------------------------------------------------ the query gateway
\* what the backend may answer: a response with rows, or an exception out of
\* .execute() (connectivity, missing procedure) or out of pd.DataFrame
\* (malformed response)
RatesTables == {<<>>, <<[t |-> <<1, 31>>, framework |-> "react", n |-> 1]>>}
TokenTables ==
    {<<>>,
     <<[t |-> <<1, 30>>, device_manufacturer |-> "samsung", tokens_generated |-> Num(2)],
       [t |-> <<2, 1>>, device_manufacturer |-> "apple", tokens_generated |-> Num(1)],
       [t |-> <<1, 30>>, device_manufacturer |-> "samsung", tokens_generated |-> Num(1)]>>}
LogTables ==
    {<<>>,
     <<[framework |-> "react", has_stack |-> TRUE],
       [framework |-> "flutter", has_stack |-> FALSE]>>}

ResponseTables(snippet_name) ==
    IF snippet_name \in RatesProcedures THEN RatesTables
    ELSE IF snippet_name = "get_generated_tokens_new" THEN TokenTables
    ELSE LogTables

Replies(snippet_name) ==
    {[raises |-> "none", rows |-> t] : t \in ResponseTables(snippet_name)}
    \cup {[raises |-> r, rows |-> <<>>] : r \in {"execute", "DataFrame"}}

\* faulty variant: the parameter values left out of the key
CacheKey_NameOnly(snippet_name, prm) ==
    <<snippet_name, [filter_out_projects |-> <<>>]>>

\* the arguments st.cache_data hashes into the entry's key
CacheKey(snippet_name, prm) == <<snippet_name, prm>>

\* every parameter mapping lines 122-123 can build
ParamMaps ==
    {[filter_out_projects |->
        SelectSeq(prod_values_to_filter_out, LAMBDA v : v \notin inc)]
       : inc \in SUBSET Range(prod_values_to_filter_out)}

CacheKeys == Procedures \X ParamMaps

NoEntry == [stored |-> FALSE, value |-> <<>>, messages |-> <<>>, stored_at |-> 0]

\* an entry is served until ttl seconds after it was stored
Fresh(entry, now) == entry.stored /\ now < entry.stored_at + TTL

\* faulty variant: only the exception of .execute() is caught
SnippetBody_NarrowExcept(snippet_name, reply) ==
    IF reply.raises = "none"
    THEN [value |-> reply.rows, messages |-> <<>>, raised |-> "none"]
    ELSE IF reply.raises = "execute"
    THEN [value |-> <<>>,
          messages |-> <<Elt("error",
                             <<"Error running snippet", snippet_name, reply.raises>>,
                             "")>>,
          raised |-> "none"]
    ELSE [value |-> <<>>, messages |-> <<>>, raised |-> reply.raises]

\* faulty variant: the failure reported twice
SnippetBody_ReportsTwice(snippet_name, reply) ==
    IF reply.raises = "none"
    THEN [value |-> reply.rows, messages |-> <<>>, raised |-> "none"]
    ELSE [value |-> <<>>,
          messages |-> <<Elt("error",
                             <<"Error running snippet", snippet_name, reply.raises>>,
                             ""),
                         Elt("error",
                             <<"Error running snippet", snippet_name, reply.raises>>,
                             "")>>,
          raised |-> "none"]

\* lines 44-54, the function body: the response's rows, or, on an exception
\* out of either statement of the try block, an st.error and an empty table.
\* raised is the exception that leaves the function: the handler catches
\* Exception, so none does
SnippetBody(snippet_name, reply) ==
    IF reply.raises = "none"
    THEN [value |-> reply.rows, messages |-> <<>>, raised |-> "none"]
    ELSE [value |-> <<>>,
          messages |-> <<Elt("error",
                             <<"Error running snippet", snippet_name, reply.raises>>,
                             "")>>,
          raised |-> "none"]

\* lines 41-54: the cached function.  A fresh entry is returned, and the
\* elements the body emitted are replayed, without running the body;
\* otherwise the body runs and what it returned is stored (nothing is stored
\* for a call that raised)
RunSqlSnippet(snippet_name, prm, reply) ==
    LET key == CacheKey(snippet_name, prm)
    IN IF Fresh(cache[key], clock)
       THEN [value |-> cache[key].value, messages |-> cache[key].messages,
             raised |-> "none", hit |-> TRUE, cache |-> cache]
       ELSE LET r == SnippetBody(snippet_name, reply)
            IN [value |-> r.value, messages |-> r.messages,
                raised |-> r.raised, hit |-> FALSE,
                cache |-> IF r.raised # "none" THEN cache
                          ELSE [cache EXCEPT ![key] =
                                  [stored |-> TRUE, value |-> r.value,
                                   messages |-> r.messages, stored_at |-> clock]]]

\* the record of one call: its arguments, whether the cache served it, what
\* the backend answered if it was invoked, and what the call returned
CallRecord(snippet_name, prm, reply, r) ==
    [snippet_name |-> snippet_name, params |-> prm, hit |-> r.hit,
     reply |-> IF r.hit THEN [raises |-> "none", rows |-> <<>>] ELSE reply,
     value |-> r.value]

\* the record of the last backend invocation for each (procedure, params)
Fetched(snippet_name, prm, r) ==
    IF r.hit THEN fetched
    ELSE [fetched EXCEPT ![<<snippet_name, prm>>] =
            [stored |-> TRUE, value |-> r.value,
             messages |-> r.messages, stored_at |-> clock]]

\* how a script statement that called run_sql_snippet goes on: to the next
\* statement, or out of the script with the exception the call raised
AfterCall(r, next) ==
    /\ pc' = IF r.raised = "none" THEN next ELSE "crashed"
    /\ exception' = r.raised

\* ------------------------------------------------------ the chart builders
NoChart == [mark |-> "None", x |-> "", y |-> <<>>, color |-> "", tooltip |-> <<>>,
            title |-> <<>>, y_title |-> <<>>, y_format |-> "", n_rows |-> 0]

\* lines 56-74
create_stacked_bar_chart(df, time_col, value_col, category_col, title, y_axis_title, y_axis_format) ==
    IF df = <<>>
    THEN [chart |-> NoChart,
          emitted |-> <<Elt("warning", <<"No data for:">> \o title, "")>>]
    ELSE [chart |-> [mark |-> "bar", x |-> time_col, y |-> <<"sum", value_col>>,
                     color |-> category_col,
                     tooltip |-> <<time_col, "sum", value_col, category_col>>,
                     title |-> title, y_title |-> y_axis_title,
                     y_format |-> y_axis_format, n_rows |-> Len(df)],
          emitted |-> <<>>]

\* faulty variant: no check for an empty table
create_line_chart_NoEmptyCheck(df, time_col, value_col, category_col, title, y_axis_title, y_axis_format) ==
    [chart |-> [mark |-> "line", x |-> time_col, y |-> <<value_col>>,
                color |-> category_col,
                tooltip |-> <<time_col, value_col, category_col>>,
                title |-> title, y_title |-> y_axis_title,
                y_format |-> y_axis_format, n_rows |-> Len(df)],
     emitted |-> <<>>]

\* lines 76-94
create_line_chart(df, time_col, value_col, category_col, title, y_axis_title, y_axis_format) ==
    IF df = <<>>
    THEN [chart |-> NoChart,
          emitted |-> <<Elt("warning", <<"No data for:">> \o title, "")>>]
    ELSE [chart |-> [mark |-> "line", x |-> time_col, y |-> <<value_col>>,
                     color |-> category_col,
                     tooltip |-> <<time_col, value_col, category_col>>,
                     title |-> title, y_title |-> y_axis_title,
                     y_format |-> y_axis_format, n_rows |-> Len(df)],
          emitted |-> <<>>]

\* lines 183-184 and the like: st.altair_chart if there is a chart
ShowChart(chart) ==
    IF chart = NoChart THEN <<>>
    ELSE <<Elt("altair_chart", chart.title, chart.y[Len(chart.y)])>>

\* ------------------------------------------------------------- the script
sessionVars == <<secrets, renders, clock, cache, fetched>>
selectorVars == <<included_projects, group_by, params>>
ratesVars == <<rates_data, counts_data, success_rate_data, error_rate_data,
               count_field, chart_suffix>>
harnessVars == <<chart_call, chart_ret>>

\* faulty variant: a missing secret does not stop the run
Connect_SilentDefault ==
    /\ pc = "connect"
    /\ page' = page
    /\ pc' = "selectors"
    /\ UNCHANGED <<sessionVars, selectorVars, ratesVars, cumulative_tokens,
                   error_logs, calls, exception, harnessVars>>

\* lines 22-37: read the two secrets and create the client; a missing secret
\* is a KeyError, anything else create_client raises is reported as is; both
\* end in st.stop()
Connect ==
    /\ pc = "connect"
    /\ \E client_ok \in BOOLEAN :
         IF ~(secrets.supabase_url /\ secrets.supabase_key)
         THEN /\ page' = page \o
                   <<Elt("error", <<"Supabase credentials not found.">>, ""),
                     Elt("info", <<"Your secrets.toml file should look like this:">>, ""),
                     Elt("code", <<"[supabase]">>, "")>>
              /\ pc' = "stopped"
         ELSE IF ~client_ok
         THEN /\ page' = page \o
                   <<Elt("error", <<"An error occurred while connecting to Supabase">>, "")>>
              /\ pc' = "stopped"
         ELSE /\ page' = page
              /\ pc' = "selectors"
    /\ UNCHANGED <<sessionVars, selectorVars, ratesVars, cumulative_tokens,
                   error_logs, calls, exception, harnessVars>>

\* lines 118-120
CleanGroupBy(option) == IF option = "event (NEW!)" THEN "event" ELSE option

\* line 122
FilterOutProjects(included) ==
    SelectSeq(prod_values_to_filter_out, LAMBDA v : v \notin included)

\* lines 97-123: title, the two selectors, the parameter mapping.  The first
\* run shows the defaults; in a later run the widgets hold what the user set
Selectors ==
    /\ pc = "selectors"
    /\ \E inc \in (IF renders = 1 THEN {{"other"}} ELSE Selections),
          opt \in (IF renders = 1 THEN {"project"} ELSE GroupByOptions) :
         /\ included_projects' = inc
         /\ group_by' = CleanGroupBy(opt)
         /\ params' = [filter_out_projects |-> FilterOutProjects(inc)]
    /\ page' = page \o <<Elt("title", <<"Cactus Performance Dashboard">>, ""),
                         Elt("markdown", <<"This dashboard visualizes">>, ""),
                         Elt("multiselect", <<"Select projects to include:">>, ""),
                         Elt("selectbox", <<"Group by:">>, "")>>
    /\ pc' = "load_rates"
    /\ UNCHANGED <<sessionVars, ratesVars, cumulative_tokens, error_logs, calls,
                   exception, harnessVars>>

\* faulty variant: the device branch bound to the event procedure's count column
RatesBinding_DeviceAsEvent(g) ==
    CASE g = "project" ->
           [snippet_name |-> "get_project_error_rate", count_field |-> "projects",
            chart_suffix |-> "(by Project)", notice |-> <<>>]
      [] g = "device" ->
           [snippet_name |-> "get_device_error_rate", count_field |-> "events",
            chart_suffix |-> "(by Device)",
            notice |-> <<Elt("warning", <<"Watch out: known issue with telemetry">>, "")>>]
      [] OTHER ->
           [snippet_name |-> "get_event_error_rate", count_field |-> "events",
            chart_suffix |-> "(by Event)", notice |-> <<>>]

\* lines 126-138: the branch taken for a group_by value
RatesBinding(g) ==
    CASE g = "project" ->
           [snippet_name |-> "get_project_error_rate", count_field |-> "projects",
            chart_suffix |-> "(by Project)", notice |-> <<>>]
      [] g = "device" ->
           [snippet_name |-> "get_device_error_rate", count_field |-> "devices",
            chart_suffix |-> "(by Device)",
            notice |-> <<Elt("warning", <<"Watch out: known issue with telemetry">>, "")>>]
      [] OTHER ->
           [snippet_name |-> "get_event_error_rate", count_field |-> "events",
            chart_suffix |-> "(by Event)", notice |-> <<>>]

\* lines 141-142: rename t to time and parse it
ParseRates(rows) ==
    [i \in DOMAIN rows |->
       [time |-> ToDatetime(rows[i].t), framework |-> rows[i].framework,
        n |-> rows[i].n]]

\* lines 125-147
LoadRates ==
    /\ pc = "load_rates"
    /\ LET b == RatesBinding(group_by)
       IN \E reply \in Replies(b.snippet_name) :
            LET r == RunSqlSnippet(b.snippet_name, params, reply)
            IN /\ cache' = r.cache
               /\ fetched' = Fetched(b.snippet_name, params, r)
               /\ calls' = Append(calls, CallRecord(b.snippet_name, params, reply, r))
               /\ AfterCall(r, "load_tokens")
               /\ count_field' = b.count_field
               /\ chart_suffix' = b.chart_suffix
               /\ IF r.value # <<>>
                  THEN /\ rates_data' = Bound(ParseRates(r.value))
                       /\ counts_data' = rates_data'
                       /\ success_rate_data' = rates_data'
                       /\ error_rate_data' = rates_data'
                       /\ page' = page \o b.notice \o r.messages
                  ELSE /\ rates_data' = Bound(<<>>)
                       /\ UNCHANGED <<counts_data, success_rate_data, error_rate_data>>
                       /\ page' = page \o b.notice \o r.messages \o
                            <<Elt("warning", <<"Could not load", group_by,
                                               "rates. Using sample data.">>, "")>>
    /\ UNCHANGED <<secrets, renders, clock, selectorVars, cumulative_tokens,
                   error_logs, harnessVars>>

\* lines 151-173 on the table line 150 bound: the new cumulative_tokens, the
\* warning of the else branch, or the exception raised
TokensStep(table) ==
    LET d == DensifyTokens(table)
    IN [tokens |-> IF d.error = "none" THEN d.frame ELSE table,
        error |-> d.error,
        emitted |-> IF table = <<>>
                    THEN <<Elt("warning",
                               <<"Could not load cumulative tokens. Using sample data.">>,
                               "")>>
                    ELSE <<>>]

\* lines 150-173
LoadTokens ==
    /\ pc = "load_tokens"
    /\ \E reply \in Replies("get_generated_tokens_new") :
         LET r == RunSqlSnippet("get_generated_tokens_new", params, reply)
             t == TokensStep(r.value)
         IN /\ cache' = r.cache
            /\ fetched' = Fetched("get_generated_tokens_new", params, r)
            /\ calls' = Append(calls,
                               CallRecord("get_generated_tokens_new", params, reply, r))
            /\ cumulative_tokens' = Bound(t.tokens)
            /\ page' = page \o r.messages \o t.emitted
            /\ IF r.raised # "none" THEN AfterCall(r, "load_logs")
               ELSE /\ exception' = t.error
                    /\ pc' = IF t.error = "none" THEN "load_logs" ELSE "crashed"
    /\ UNCHANGED <<secrets, renders, clock, selectorVars, ratesVars, error_logs,
                   harnessVars>>

\* lines 176-178
LoadLogs ==
    /\ pc = "load_logs"
    /\ \E reply \in Replies("get_error_logs") :
         LET r == RunSqlSnippet("get_error_logs", params, reply)
         IN /\ cache' = r.cache
            /\ fetched' = Fetched("get_error_logs", params, r)
            /\ calls' = Append(calls, CallRecord("get_error_logs", params, reply, r))
            /\ AfterCall(r, "row1")
            /\ error_logs' = Bound(r.value)
            /\ page' = page \o r.messages \o
                 (IF r.value = <<>>
                  THEN <<Elt("warning", <<"Could not load error logs. Using sample data.">>, "")>>
                  ELSE <<>>)
    /\ UNCHANGED <<secrets, renders, clock, selectorVars, ratesVars,
                   cumulative_tokens, harnessVars>>

\* one of rows 1-3: the header, then the builder on a script variable; reading
\* an unbound variable raises NameError, which ends the run
ChartRow(header, data, built, next) ==
    /\ IF data.bound
       THEN /\ page' = page \o <<Elt("header", header, "")>> \o built.emitted
                         \o ShowChart(built.chart)
            /\ pc' = next
            /\ UNCHANGED exception
       ELSE /\ page' = page \o <<Elt("header", header, "")>>
            /\ pc' = "crashed"
            /\ exception' = "NameError"
    /\ UNCHANGED <<sessionVars, selectorVars, ratesVars, cumulative_tokens,
                   error_logs, calls, harnessVars>>

\* lines 180-184
Row1 ==
    /\ pc = "row1"
    /\ ChartRow(<<"Daily", Title(group_by), "Count">>, counts_data,
                create_stacked_bar_chart(counts_data.df, "time", count_field,
                    "framework", <<"Daily", Title(group_by), "Count">>,
                    <<Title(group_by), "Count">>, ""),
                "row2")

\* lines 186-190
Row2 ==
    /\ pc = "row2"
    /\ ChartRow(<<"Success Rate", chart_suffix>>, success_rate_data,
                create_line_chart(success_rate_data.df, "time", "success_rate",
                    "framework", <<"Daily Success Rate", chart_suffix>>,
                    <<"Success Rate (%)">>, "%"),
                "row3")

\* lines 192-196
Row3 ==
    /\ pc = "row3"
    /\ ChartRow(<<"Error Rate", chart_suffix>>, error_rate_data,
                create_line_chart(error_rate_data.df, "time", "error_rate",
                    "framework", <<"Daily Error Rate", chart_suffix>>,
                    <<"Error Rate (%)">>, "%"),
                "row4")

\* lines 199-216
Row4 ==
    /\ pc = "row4"
    /\ page' = page \o <<Elt("header", <<"Total Tokens Generated">>, "")>> \o
         (IF cumulative_tokens.df # <<>>
          THEN <<Elt("altair_chart", <<"Daily Tokens Generated">>, "tokens_generated")>>
          ELSE <<Elt("warning", <<"No data for Tokens Generated chart.">>, "")>>)
    /\ pc' = "row5"
    /\ UNCHANGED <<sessionVars, selectorVars, ratesVars, cumulative_tokens,
                   error_logs, calls, exception, harnessVars>>

RECURSIVE LogEntries(_)
\* lines 222-245: one expander per row, with the stack trace or a note
LogEntries(rows) ==
    IF rows = <<>> THEN <<>>
    ELSE <<Elt("expander", <<Head(rows).framework>>, ""),
           Elt(IF Head(rows).has_stack THEN "code" ELSE "info",
               <<Head(rows).framework>>, "")>>
         \o LogEntries(Tail(rows))

\* lines 219-254: the log browser, then the sidebar note
Row5 ==
    /\ pc = "row5"
    /\ page' = page \o <<Elt("header", <<"Raw Error Logs">>, "")>> \o
         (IF error_logs.df # <<>>
          THEN LogEntries(error_logs.df)
          ELSE <<Elt("warning", <<"No error logs to display.">>, "")>>)
         \o <<Elt("sidebar.info", <<"To run this app:">>, "")>>
    /\ pc' = "done"
    /\ UNCHANGED <<sessionVars, selectorVars, ratesVars, cumulative_tokens,
                   error_logs, calls, exception, harnessVars>>

\* a user input, or a reload: the script runs again from the top with fresh
\* script variables; the cache lives on
Rerun ==
    /\ pc \in {"done", "stopped", "crashed"}
    /\ renders < MaxRenders
    /\ renders' = renders + 1
    /\ \E dt \in Delays : clock' = clock + dt
    /\ pc' = "connect"
    /\ included_projects' = {}
    /\ group_by' = ""
    /\ params' = [filter_out_projects |-> <<>>]
    /\ rates_data' = Unbound
    /\ counts_data' = Unbound
    /\ success_rate_data' = Unbound
    /\ error_rate_data' = Unbound
    /\ count_field' = ""
    /\ chart_suffix' = ""
    /\ cumulative_tokens' = Unbound
    /\ error_logs' = Unbound
    /\ page' = <<>>
    /\ calls' = <<>>
    /\ exception' = "none"
    /\ UNCHANGED <<secrets, cache, fetched, harnessVars>>

ScriptInit ==
    /\ included_projects = {}
    /\ group_by = ""
    /\ params = [filter_out_projects |-> <<>>]
    /\ rates_data = Unbound
    /\ counts_data = Unbound
    /\ success_rate_data = Unbound
    /\ error_rate_data = Unbound
    /\ count_field = ""
    /\ chart_suffix = ""
    /\ error_logs = Unbound
    /\ page = <<>>
    /\ calls = <<>>
    /\ exception = "none"

SessionInit ==
    /\ renders = 1
    /\ clock = 0
    /\ cache = [k \in CacheKeys |-> NoEntry]
    /\ fetched = [k \in CacheKeys |-> NoEntry]

HarnessInit ==
    /\ chart_call = [builder |-> "none", df |-> <<>>, value_col |-> "", y_axis_format |-> ""]
    /\ chart_ret = [returned |-> FALSE, chart |-> NoChart, emitted |-> <<>>]

\* the first run of a session, for any content of the secret store
Init ==
    /\ pc = "connect"
    /\ secrets \in [supabase_url : BOOLEAN, supabase_key : BOOLEAN]
    /\ cumulative_tokens = Unbound
    /\ SessionInit /\ ScriptInit /\ HarnessInit

Next ==
    \/ Connect
    \/ Selectors
    \/ LoadRates
    \/ LoadTokens
    \/ LoadLogs
    \/ Row1
    \/ Row2
    \/ Row3
    \/ Row4
    \/ Row5
    \/ Rerun

Spec == Init /\ [][Next]_vars

\* ------------------------------------------- the densification step alone
\* well-formed rows of get_generated_tokens_new
GoodDates == {<<1, 31>>} \cup {<<2, d>> : d \in 1..MaxFebDay}
GoodTokens == {Num(1), Num(MaxTokens)}
TokenRows ==
    [t : GoodDates, device_manufacturer : Range(Manufacturers),
     tokens_generated : GoodTokens]

\* rows that may hold February 30 for a date or a string for a number
AnyTokenRows ==
    [t : GoodDates \cup {<<2, 30>>}, device_manufacturer : Range(Manufacturers),
     tokens_generated : GoodTokens \cup {Str}]

\* lines 151-173 in a run that has just bound cumulative_tokens (line 150)
DensifyStep ==
    /\ pc = "densify"
    /\ LET t == TokensStep(cumulative_tokens.df)
       IN /\ cumulative_tokens' = Bound(t.tokens)
          /\ page' = page \o t.emitted
          /\ exception' = t.error
          /\ pc' = IF t.error = "none" THEN "densified" ELSE "crashed"
    /\ UNCHANGED <<sessionVars, selectorVars, ratesVars, error_logs, calls,
                   harnessVars>>

\* the state after line 150 returned `table`
AfterTokensQuery(table) ==
    /\ pc = "densify"
    /\ secrets = [supabase_url |-> TRUE, supabase_key |-> TRUE]
    /\ SessionInit /\ HarnessInit
    /\ included_projects = {"other"}
    /\ group_by = "project"
    /\ params = [filter_out_projects |-> FilterOutProjects({"other"})]
    /\ rates_data = Bound(<<>>)
    /\ counts_data = Unbound
    /\ success_rate_data = Unbound
    /\ error_rate_data = Unbound
    /\ count_field = "projects"
    /\ chart_suffix = "(by Project)"
    /\ error_logs = Unbound
    /\ page = <<>>
    /\ exception = "none"
    /\ cumulative_tokens = Bound(table)
    /\ calls = <<[snippet_name |-> "get_generated_tokens_new", params |-> params,
                  hit |-> FALSE, reply |-> [raises |-> "none", rows |-> table],
                  value |-> table]>>

InitDensify == \E table \in SeqUpTo(TokenRows, MaxRows) : AfterTokensQuery(table)

SpecDensify == InitDensify /\ [][DensifyStep]_vars

InitMalformed == \E table \in SeqUpTo(AnyTokenRows, MaxBadRows) : AfterTokensQuery(table)

SpecMalformed == InitMalformed /\ [][DensifyStep]_vars

\* ---------------------------------------------- the chart builders alone
ChartTables ==
    SeqUpTo([time : 31..32, framework : {"react", "flutter"}, n : {1}], MaxChartRows)

ValueColumns == {"projects", "devices", "events", "success_rate", "error_rate"}

CallStackedBar ==
    /\ pc = "call_chart"
    /\ chart_call.builder = "create_stacked_bar_chart"
    /\ LET r == create_stacked_bar_chart(chart_call.df, "time", chart_call.value_col,
                    "framework", <<"Daily Count">>, <<"Count">>,
                    chart_call.y_axis_format)
       IN chart_ret' = [returned |-> TRUE, chart |-> r.chart, emitted |-> r.emitted]
    /\ pc' = "returned"
    /\ UNCHANGED <<sessionVars, selectorVars, ratesVars, cumulative_tokens,
                   error_logs, page, calls, exception, chart_call>>

CallLine ==
    /\ pc = "call_chart"
    /\ chart_call.builder = "create_line_chart"
    /\ LET r == create_line_chart(chart_call.df, "time", chart_call.value_col,
                    "framework", <<"Daily Rate">>, <<"Rate (%)">>,
                    chart_call.y_axis_format)
       IN chart_ret' = [returned |-> TRUE, chart |-> r.chart, emitted |-> r.emitted]
    /\ pc' = "returned"
    /\ UNCHANGED <<sessionVars, selectorVars, ratesVars, cumulative_tokens,
                   error_logs, page, calls, exception, chart_call>>

InitCharts ==
    /\ pc = "call_chart"
    /\ secrets = [supabase_url |-> TRUE, supabase_key |-> TRUE]
    /\ cumulative_tokens = Unbound
    /\ SessionInit /\ ScriptInit
    /\ chart_call \in [builder : {"create_stacked_bar_chart", "create_line_chart"},
                       df : ChartTables, value_col : ValueColumns,
                       y_axis_format : {"", "%"}]
    /\ chart_ret = [returned |-> FALSE, chart |-> NoChart, emitted |-> <<>>]

NextCharts == CallStackedBar \/ CallLine

SpecCharts == InitCharts /\ [][NextCharts]_vars

\* ------------------------------------------------------------ the claims
\* the table the run got from get_generated_tokens_new
TokensFetched == calls[Len(calls)].value

\* the calendar, written out: the days a raw date may name, and their ordinals
CalendarDay(t) ==
    IF t[1] = 1 /\ t[2] \in 1..31 THEN t[2]
    ELSE IF t[1] = 2 /\ t[2] \in 1..29 THEN 31 + t[2]
    ELSE 0

\* sum of tokens_generated over the rows of `rows` that satisfy Keep
TokensWhere(rows, Keep(_)) ==
    LET sel == SelectSeq(rows, Keep)
    IN SumSeq([j \in DOMAIN sel |-> sel[j].tokens_generated.n])

\* number of elements of the page that satisfy Is
CountElts(Is(_)) == Len(SelectSeq(page, Is))

\* C1: for a non-empty token table, the densified table holds every pair of
\* {each day from the first to the last input date} x {the input's
\* device_manufacturer values} exactly once and no other pair, so it has
\* (days spanned) x (distinct categories) rows.
C1_DenseGrid ==
    (pc = "densified" /\ TokensFetched # <<>>) =>
      LET in == TokensFetched
          out == cumulative_tokens.df
          days == {CalendarDay(in[i].t) : i \in DOMAIN in}
          span == {d \in 1..60 : /\ \E x \in days : x <= d
                                 /\ \E x \in days : d <= x}
          cats == {in[i].device_manufacturer : i \in DOMAIN in}
      IN /\ \A d \in span, c \in cats :
              Cardinality({k \in DOMAIN out : /\ out[k].time = d
                                              /\ out[k].device_manufacturer = c}) = 1
         /\ \A k \in DOMAIN out :
              out[k].time \in span /\ out[k].device_manufacturer \in cats
         /\ Len(out) = Cardinality(span) * Cardinality(cats)

\* a table with a pair twice and a gap in its dates was densified
C1_Witness ==
    /\ pc = "densified"
    /\ LET in == TokensFetched
       IN /\ \E i, j \in DOMAIN in :
               i # j /\ in[i].t = in[j].t
                     /\ in[i].device_manufacturer = in[j].device_manufacturer
          /\ \E i, j \in DOMAIN in :
               CalendarDay(in[j].t) > CalendarDay(in[i].t) + 1
          /\ Len(cumulative_tokens.df) > Len(in)

\* C2: at every row of the densified table, cumulative_tokens is the sum of
\* tokens_generated over all input rows of the row's category dated on or
\* before the row's date: duplicates add up, absent cells count 0, each
\* category starts from 0.
C2_CumulativeSum ==
    (pc = "densified" /\ TokensFetched # <<>>) =>
      LET in == TokensFetched
          out == cumulative_tokens.df
          last == CHOOSE d \in {out[k].time : k \in DOMAIN out} :
                    \A k \in DOMAIN out : out[k].time <= d
      IN /\ \A k \in DOMAIN out :
              out[k].cumulative_tokens =
                TokensWhere(in, LAMBDA r :
                    /\ r.device_manufacturer = out[k].device_manufacturer
                    /\ CalendarDay(r.t) <= out[k].time)
         /\ \A k \in DOMAIN out :
              out[k].time = last =>
                out[k].cumulative_tokens =
                  TokensWhere(in, LAMBDA r :
                      r.device_manufacturer = out[k].device_manufacturer)

\* two categories, one with the same pair twice, the other absent on the
\* first day
C2_Witness ==
    /\ pc = "densified"
    /\ LET in == TokensFetched
           out == cumulative_tokens.df
       IN /\ \E i, j \in DOMAIN in :
               i < j /\ in[i].t = in[j].t
                     /\ in[i].device_manufacturer = in[j].device_manufacturer
          /\ \E k \in DOMAIN out :
               out[k].cumulative_tokens = 0 /\ out[k].tokens_generated = 0
          /\ \E k \in DOMAIN out : out[k].cumulative_tokens > MaxTokens

C7_ChartBuilders ==
    chart_ret.returned =>
      IF chart_call.df = <<>>
      THEN /\ chart_ret.chart = NoChart
           /\ Len(chart_ret.emitted) = 1
           /\ chart_ret.emitted[1].elt = "warning"
      ELSE /\ chart_ret.chart # NoChart
           /\ chart_ret.chart.mark =
                (IF chart_call.builder = "create_stacked_bar_chart" THEN "bar" ELSE "line")
           /\ chart_ret.chart.y[Len(chart_ret.chart.y)] = chart_call.value_col
           /\ chart_ret.emitted = <<>>

C7_Witness ==
    /\ chart_ret.returned
    /\ chart_call.builder = "create_line_chart"
    /\ chart_call.df = <<>>
    /\ Len(chart_ret.emitted) = 1

\* both secrets are in the store
ConfigPresent == secrets.supabase_url /\ secrets.supabase_key

\* C3: with configuration present, whichever queries come back empty, the
\* run reaches its end without an exception; a section whose table is empty
\* is left out with a warning and the others are shown.
C3_EmptyResultsRenderToCompletion ==
    ConfigPresent =>
      /\ exception = "none"
      /\ pc # "crashed"
      /\ pc = "done" =>
           /\ IF rates_data.df = <<>>
              THEN /\ CountElts(LAMBDA e : e.elt = "altair_chart"
                                  /\ e.col \in {count_field, "success_rate", "error_rate"}) = 0
                   /\ CountElts(LAMBDA e : e.elt = "warning"
                                  /\ e.about[1] = "No data for:") = 3
              ELSE CountElts(LAMBDA e : e.elt = "altair_chart"
                               /\ e.col \in {count_field, "success_rate", "error_rate"}) = 3
           /\ IF cumulative_tokens.df = <<>>
              THEN /\ CountElts(LAMBDA e : e.elt = "altair_chart"
                                  /\ e.col = "tokens_generated") = 0
                   /\ CountElts(LAMBDA e : e.elt = "warning" /\ e.about =
                                  <<"No data for Tokens Generated chart.">>) = 1
              ELSE CountElts(LAMBDA e : e.elt = "altair_chart"
                               /\ e.col = "tokens_generated") = 1
           /\ IF error_logs.df = <<>>
              THEN /\ CountElts(LAMBDA e : e.elt = "expander") = 0
                   /\ CountElts(LAMBDA e : e.elt = "warning" /\ e.about =
                                  <<"No error logs to display.">>) = 1
              ELSE CountElts(LAMBDA e : e.elt = "expander") = Len(error_logs.df)

\* C4: no exception of the remote call leaves run_sql_snippet: a call whose
\* backend invocation raised returned an empty table and put one error for
\* the procedure on the page; a call whose invocation succeeded returned the
\* response's rows and no error.
C4_GatewayNeverPropagates ==
    /\ exception \notin {"execute", "DataFrame"}
    /\ \A i \in DOMAIN calls :
         LET c == calls[i]
         IN ~c.hit =>
              IF c.reply.raises # "none"
              THEN /\ c.value = <<>>
                   /\ CountElts(LAMBDA e : e.elt = "error" /\ e.about =
                         <<"Error running snippet", c.snippet_name, c.reply.raises>>) >= 1
              ELSE /\ c.value = c.reply.rows
                   /\ CountElts(LAMBDA e : e.elt = "error"
                         /\ e.about[2] = c.snippet_name) = 0

\* a malformed response to the last query, in a run that went on to its end
C4_Witness ==
    /\ pc = "done"
    /\ \E i \in DOMAIN calls :
         /\ ~calls[i].hit
         /\ calls[i].reply.raises = "DataFrame"
         /\ calls[i].snippet_name = "get_error_logs"
    /\ \E i \in DOMAIN calls :
         ~calls[i].hit /\ calls[i].reply.raises = "none" /\ calls[i].value # <<>>

\* C5: a call of run_sql_snippet whose (procedure, params) pair was fetched
\* successfully less than TTL seconds ago is served that result without a
\* backend invocation; one whose pair was fetched TTL seconds ago or earlier
\* invokes the backend; and a call served from the cache is served the
\* unexpired result of a fetch for exactly its own pair.
C5_CacheWindow ==
    [][Len(calls') = Len(calls) + 1 =>
         LET c == calls'[Len(calls')]
             f == fetched[<<c.snippet_name, c.params>>]
         IN /\ (f.stored /\ f.messages = <<>> /\ clock < f.stored_at + 600)
                  => (c.hit /\ c.value = f.value)
            /\ (f.stored /\ clock >= f.stored_at + 600) => ~c.hit
            /\ c.hit => (f.stored /\ c.value = f.value /\ clock < f.stored_at + 600)
      ]_vars

\* a second run, five minutes after the first, served rows from the cache
C5_Witness ==
    /\ renders = 2
    /\ clock = 300
    /\ \E i \in DOMAIN calls : calls[i].hit /\ calls[i].value # <<>>

\* C6: with the endpoint or the credential missing, the run stops after the
\* remediation text: no query is made, no selector, header or chart is shown.
C6_MissingConfigHalts ==
    ~ConfigPresent =>
      /\ pc \in {"connect", "stopped"}
      /\ calls = <<>>
      /\ CountElts(LAMBDA e : e.elt \notin {"error", "info", "code"}) = 0
      /\ pc = "stopped" =>
           /\ Len(page) = 3
           /\ page[1].elt = "error" /\ page[2].elt = "info" /\ page[3].elt = "code"

C6_Witness ==
    /\ pc = "stopped"
    /\ secrets.supabase_url
    /\ ~secrets.supabase_key
    /\ Len(page) = 3

\* C8: in one run each procedure is called at most once and the backend is
\* invoked for it at most once; a backend invocation that failed has exactly
\* one error on the page, and no procedure has more than one.
C8_NoRetry ==
    \A p \in Procedures :
      LET mine == SelectSeq(calls, LAMBDA c : c.snippet_name = p)
          failed == SelectSeq(mine, LAMBDA c : ~c.hit /\ c.reply.raises # "none")
          errors == CountElts(LAMBDA e : e.elt = "error" /\ e.about[1] =
                       "Error running snippet" /\ e.about[2] = p)
      IN /\ Len(mine) <= 1
         /\ Len(SelectSeq(mine, LAMBDA c : ~c.hit)) <= 1
         /\ errors <= 1
         /\ Len(failed) = 1 => errors = 1

\* two of the three queries failed in a run that reached its end
C8_Witness ==
    /\ pc = "done"
    /\ Len(SelectSeq(calls, LAMBDA c : ~c.hit /\ c.reply.raises # "none")) = 2
    /\ CountElts(LAMBDA e : e.elt = "error") = 2

\* the binding the selector is to give: procedure and count column
ClaimedProcedure(g) ==
    CASE g = "project" -> "get_project_error_rate"
      [] g = "device" -> "get_device_error_rate"
      [] g = "event" -> "get_event_error_rate"
ClaimedColumn(g) ==
    CASE g = "project" -> "projects"
      [] g = "device" -> "devices"
      [] g = "event" -> "events"

\* C9: once the selectors are read, group_by is one of project, device and
\* event; the run calls the rates procedure of that grouping and no other,
\* then get_generated_tokens_new and get_error_logs, all three with the
\* filter_out_projects list of the values not included; the count chart, when
\* shown, is on the grouping's count column.
C9_GroupingBinding ==
    (pc \notin {"connect", "selectors", "stopped"}) =>
      /\ group_by \in {"project", "device", "event"}
      /\ Len(calls) = (CASE pc = "load_rates" -> 0
                         [] pc = "load_tokens" -> 1
                         [] pc = "load_logs" -> 2
                         [] OTHER -> 3)
      /\ \A i \in DOMAIN calls :
           /\ calls[i].snippet_name =
                <<ClaimedProcedure(group_by), "get_generated_tokens_new",
                  "get_error_logs">>[i]
           /\ calls[i].params.filter_out_projects =
                SelectSeq(<<"kin_ai", "cactus_chat", "other">>,
                          LAMBDA v : v \notin included_projects)
      /\ pc # "load_rates" => count_field = ClaimedColumn(group_by)
      /\ \A k \in DOMAIN page :
           (page[k].elt = "altair_chart" /\ page[k].about[1] = "Daily"
              /\ page[k].about[Len(page[k].about)] = "Count")
             => page[k].col = ClaimedColumn(group_by)

\* a run grouped by device, with a project more included, shown to its end
C9_Witness ==
    /\ pc = "done"
    /\ group_by = "device"
    /\ included_projects = {"kin_ai", "other"}
    /\ \E k \in DOMAIN page : page[k].elt = "altair_chart" /\ page[k].col = "devices"

=============================================================================
